---------------------------- MODULE Spec2Model ----------------------------
(***************************************************************************)
(* Notification gateways of MoviePilot-Plugins:                            *)
(*   NapCatQQMsg  (plugins.v2/napcatqqmsg)  synchronous, deduplicating     *)
(*   LLOneBotMsg  (plugins.v2/onebotqqmsg)  queued, rate limited           *)
(* A str is a sequence of one-character strings, so that the fingerprint   *)
(* f"{title}|{text}", str.strip(), str.rstrip('/') and int() are computed. *)
(* Enum members and None are one-element sequences holding their name.     *)
(***************************************************************************)
EXTENDS Integers, Sequences, FiniteSets, TLC

\* ------------------------------------------------------------------ bounds
MaxTime == 11      \* the clock stops here
MaxCalls == 3      \* NapCatQQMsg.send invocations
MaxSends == 2      \* LLOneBotMsg.send invocations
MaxStops == 1      \* LLOneBotMsg.stop_service invocations
MaxThreads == 2    \* threads LLOneBotMsg.init_plugin may start in all
MaxBurst == 3      \* LLOneBotMsg.send invocations of a burst

\* ------------------------------------------------------- program constants
dedup_window_seconds == 10
send_interval == 5

\* Python None
NoneVal == <<"None">>

VARIABLES
    plugin,                   \* the plugin class the host has instantiated
    now,                      \* time.time(), whole seconds
    rejected_empty,           \* history: some send() returned because title and text were both empty
    \* ---- NapCatQQMsg
    nc_enabled,               \* _enabled
    nc_forward_url,           \* _forward_url
    nc_user_id,               \* _user_id
    last_forwarded_messages,  \* _last_forwarded_messages
    nc_pc,                    \* per event-delivery thread: its position in send()
    nc_frame,                 \* per thread: the locals of its send() call
    nc_calls,                 \* history: send() invocations so far
    nc_fwd_at,                \* history: fingerprint -> current_time of the last call accepted for forwarding
    nc_posts,                 \* history: fingerprint -> HTTP POSTs issued
    nc_suppressed,            \* history: fingerprint -> calls returned as duplicates
    \* ---- LLOneBotMsg
    ob_init,                  \* the init_plugin call in progress: its position and its config
    ob_enabled,               \* _enabled
    ob_api_url,               \* _api_url
    ob_token,                 \* _token
    ob_qq_user_id,            \* _qq_user_id
    ob_msgtypes,              \* _msgtypes
    event,                    \* __event, the exit flag
    message_queue,            \* message_queue
    last_send_time,           \* last_send_time
    processing_thread,        \* processing_thread: the thread started last (0: None)
    ob_pc,                    \* per thread: its position in process_queue()
    ob_frame,                 \* per thread: the locals of process_queue()
    ob_sends,                 \* history: send() invocations so far
    ob_stops,                 \* history: stop_service() invocations so far
    ob_http_max,              \* history: the largest id among the items whose HTTP attempt has started
    ob_attempt_end,           \* history: per thread, the time its last HTTP attempt ended (0: none yet)
    ob_took_none              \* history: per thread, whether get() has returned it a None

nc_config == <<nc_enabled, nc_forward_url, nc_user_id>>
nc_hist == <<nc_calls, nc_fwd_at, nc_posts, nc_suppressed>>
nc_vars == <<nc_config, last_forwarded_messages, nc_pc, nc_frame, nc_hist>>

ob_config == <<ob_enabled, ob_api_url, ob_token, ob_qq_user_id, ob_msgtypes>>
ob_threads == <<processing_thread, ob_pc, ob_frame>>
ob_hist == <<ob_sends, ob_stops, ob_http_max, ob_attempt_end, ob_took_none>>
ob_vars == <<ob_init, ob_config, event, message_queue, last_send_time, ob_threads, ob_hist>>

vars == <<plugin, now, rejected_empty, nc_vars, ob_vars>>

\* ---------------------------------------------------------------- helpers
\* Python truthiness of a value that is None or a str
Truthy(x) == x /= NoneVal /\ x /= <<>>

\* dict.get(key) and dict.get(key, default); a dict is a function on its keys
Get(d, key) == IF key \in DOMAIN d THEN d[key] ELSE NoneVal
GetOr(d, key, default) == IF key \in DOMAIN d THEN d[key] ELSE default
NoConfig == << >>

DictDel(d, ks) == [k \in (DOMAIN d) \ ks |-> d[k]]
DictSet(d, key, v) == [k \in (DOMAIN d) \cup {key} |-> IF k = key THEN v ELSE d[k]]
Count(c, key) == IF key \in DOMAIN c THEN c[key] ELSE 0
Bump(c, key) == DictSet(c, key, Count(c, key) + 1)

\* ======================================================================
\*                              NapCatQQMsg
\* ======================================================================
Threads == {1, 2}
NcUrl == <<"h">>
NcUser == <<"7">>
NcFull == [enabled |-> TRUE, forward_url |-> NcUrl, user_id |-> NcUser]
NcConfigs ==
    { NcFull,
      [enabled |-> FALSE, forward_url |-> NcUrl, user_id |-> NcUser],
      [enabled |-> TRUE,  forward_url |-> <<>>,  user_id |-> NcUser],
      [enabled |-> TRUE,  forward_url |-> NcUrl] }
\* event.event_data: a dict, or some other object
NcEvents ==
    { [is_dict |-> TRUE,  data |-> << >>],
      [is_dict |-> TRUE,  data |-> [title |-> <<"a">>]],
      [is_dict |-> TRUE,  data |-> [title |-> <<"a", "|">>, text |-> <<>>]],
      [is_dict |-> TRUE,  data |-> [title |-> <<"a">>, text |-> <<"|">>]],
      [is_dict |-> FALSE, data |-> << >>] }
PostResults == {"200", "non200", "none", "exception"}

\* f"{title}|{text}"
message_fingerprint(title, text) == title \o <<"|">> \o text

\* line 126
NcConfigured == nc_enabled /\ Truthy(nc_forward_url) /\ Truthy(nc_user_id)

\* variant of line 136: "is None" in place of the truth test
NcEmptyNoticeNoneOnly(title, text) == title = NoneVal /\ text = NoneVal

\* line 136
NcEmptyNotice(title, text) == ~Truthy(title) /\ ~Truthy(text)

\* variant of line 142: ">=" in place of ">"
NcExpiredInclusive(current_time, ts) == current_time - ts >= dedup_window_seconds

\* line 142: the sweep's expiry test
NcExpired(current_time, ts) == current_time - ts > dedup_window_seconds

\* lines 140-143
expired_keys(d, current_time) == {k \in DOMAIN d : NcExpired(current_time, d[k])}

\* line 149
NcIsDuplicate(fp, d) == fp \in DOMAIN d

\* line 155
NcRecord(d, fp, current_time) == DictSet(d, fp, current_time)

NcIdleFrame == [title |-> <<>>, text |-> <<>>, current_time |-> 0, used |-> 0, expired |-> {}]
NcFingerprintOf(t) == message_fingerprint(nc_frame[t].title, nc_frame[t].text)

NcInit ==
    /\ nc_enabled = FALSE
    /\ nc_forward_url = NoneVal
    /\ nc_user_id = NoneVal
    /\ last_forwarded_messages = << >>
    /\ nc_pc = [t \in Threads |-> "idle"]
    /\ nc_frame = [t \in Threads |-> NcIdleFrame]
    /\ nc_calls = 0
    /\ nc_fwd_at = << >>
    /\ nc_posts = << >>
    /\ nc_suppressed = << >>

\* init_plugin(config), lines 31-41
NcInitPlugin(config) ==
    /\ plugin = "NapCatQQMsg"
    /\ IF DOMAIN config /= {}
          THEN /\ nc_enabled' = config.enabled
               /\ nc_forward_url' = Get(config, "forward_url")
               /\ nc_user_id' = Get(config, "user_id")
          ELSE UNCHANGED nc_config
    /\ UNCHANGED <<plugin, now, rejected_empty, last_forwarded_messages, nc_pc, nc_frame, nc_hist, ob_vars>>

\* lines 126-137: send(event) passes the first two gates and returns at the third
NcReturnsAtEmpty(ev) ==
    /\ NcConfigured
    /\ ev.is_dict
    /\ NcEmptyNotice(GetOr(ev.data, "title", <<>>), GetOr(ev.data, "text", <<>>))

\* send(event), lines 126-139 and the start of the iteration of line 141:
\* the gates, then current_time = time.time()
NcSend(t, ev) ==
    /\ plugin = "NapCatQQMsg"
    /\ nc_pc[t] = "idle"
    /\ nc_calls < MaxCalls
    /\ nc_calls' = nc_calls + 1
    /\ LET title == GetOr(ev.data, "title", <<>>)
           text == GetOr(ev.data, "text", <<>>)
       IN IF NcConfigured /\ ev.is_dict /\ ~NcEmptyNotice(title, text)
             THEN /\ nc_pc' = [nc_pc EXCEPT ![t] = "sweep"]
                  /\ nc_frame' = [nc_frame EXCEPT ![t] =
                         [title |-> title, text |-> text, current_time |-> now,
                          used |-> Cardinality(DOMAIN last_forwarded_messages),
                          expired |-> {}]]
             ELSE UNCHANGED <<nc_pc, nc_frame>>
    /\ rejected_empty' = (rejected_empty \/ NcReturnsAtEmpty(ev))
    /\ UNCHANGED <<plugin, now, nc_config, last_forwarded_messages,
                   nc_fwd_at, nc_posts, nc_suppressed, ob_vars>>

\* lines 140-143: the list comprehension over the dict ends; a dict whose size
\* changed under the iteration raises RuntimeError, which leaves send()
NcSweep(t) ==
    /\ plugin = "NapCatQQMsg"
    /\ nc_pc[t] = "sweep"
    /\ IF Cardinality(DOMAIN last_forwarded_messages) /= nc_frame[t].used
          THEN /\ nc_pc' = [nc_pc EXCEPT ![t] = "idle"]
               /\ nc_frame' = [nc_frame EXCEPT ![t] = NcIdleFrame]
          ELSE /\ nc_pc' = [nc_pc EXCEPT ![t] = "delete"]
               /\ nc_frame' = [nc_frame EXCEPT ![t].expired =
                      expired_keys(last_forwarded_messages, nc_frame[t].current_time)]
    /\ UNCHANGED <<plugin, now, rejected_empty, nc_config, last_forwarded_messages, nc_hist, ob_vars>>

\* lines 144-145: del of each expired key; a key another thread has already
\* deleted raises KeyError after some of the others were deleted
NcDelete(t) ==
    /\ plugin = "NapCatQQMsg"
    /\ nc_pc[t] = "delete"
    /\ IF nc_frame[t].expired \subseteq DOMAIN last_forwarded_messages
          THEN /\ last_forwarded_messages' =
                      DictDel(last_forwarded_messages, nc_frame[t].expired)
               /\ nc_pc' = [nc_pc EXCEPT ![t] = "lookup"]
               /\ nc_frame' = [nc_frame EXCEPT ![t].expired = {}]
          ELSE /\ \E done \in SUBSET (nc_frame[t].expired \cap DOMAIN last_forwarded_messages) :
                      last_forwarded_messages' = DictDel(last_forwarded_messages, done)
               /\ nc_pc' = [nc_pc EXCEPT ![t] = "idle"]
               /\ nc_frame' = [nc_frame EXCEPT ![t] = NcIdleFrame]
    /\ UNCHANGED <<plugin, now, rejected_empty, nc_config, nc_hist, ob_vars>>

\* variant of lines 149-153: the duplicate's time is written to the entry
NcRefreshed(d, fp, current_time) == DictSet(d, fp, current_time)

\* lines 149-153: the dict when a duplicate returns
NcSuppressed(d, fp, current_time) == d

\* lines 147-153: the membership test; a duplicate returns
NcLookup(t) ==
    /\ plugin = "NapCatQQMsg"
    /\ nc_pc[t] = "lookup"
    /\ IF NcIsDuplicate(NcFingerprintOf(t), last_forwarded_messages)
          THEN /\ nc_pc' = [nc_pc EXCEPT ![t] = "idle"]
               /\ nc_frame' = [nc_frame EXCEPT ![t] = NcIdleFrame]
               /\ nc_suppressed' = Bump(nc_suppressed, NcFingerprintOf(t))
               /\ last_forwarded_messages' =
                      NcSuppressed(last_forwarded_messages, NcFingerprintOf(t),
                                   nc_frame[t].current_time)
          ELSE /\ nc_pc' = [nc_pc EXCEPT ![t] = "insert"]
               /\ UNCHANGED <<nc_frame, nc_suppressed, last_forwarded_messages>>
    /\ UNCHANGED <<plugin, now, rejected_empty, nc_config,
                   nc_calls, nc_fwd_at, nc_posts, ob_vars>>

\* line 155: the fingerprint is recorded
NcInsert(t) ==
    /\ plugin = "NapCatQQMsg"
    /\ nc_pc[t] = "insert"
    /\ last_forwarded_messages' =
           NcRecord(last_forwarded_messages, NcFingerprintOf(t), nc_frame[t].current_time)
    /\ nc_fwd_at' = DictSet(nc_fwd_at, NcFingerprintOf(t), nc_frame[t].current_time)
    /\ nc_pc' = [nc_pc EXCEPT ![t] = "post"]
    /\ UNCHANGED <<plugin, now, rejected_empty, nc_config, nc_frame, nc_calls, nc_posts, nc_suppressed, ob_vars>>

\* variant of lines 180-192: a failed POST takes the fingerprint back out
NcForgottenOnFailure(d, fp, result) == IF result = "200" THEN d ELSE DictDel(d, {fp})

\* lines 180-192: the dict after the POST, whatever its outcome
NcAfterPost(d, fp, result) == d

\* lines 159-192: the POST and its outcome, every one of which is only logged
NcPost(t, result) ==
    /\ plugin = "NapCatQQMsg"
    /\ nc_pc[t] = "post"
    /\ last_forwarded_messages' =
           NcAfterPost(last_forwarded_messages, NcFingerprintOf(t), result)
    /\ nc_posts' = Bump(nc_posts, NcFingerprintOf(t))
    /\ nc_pc' = [nc_pc EXCEPT ![t] = "idle"]
    /\ nc_frame' = [nc_frame EXCEPT ![t] = NcIdleFrame]
    /\ UNCHANGED <<plugin, now, rejected_empty, nc_config,
                   nc_calls, nc_fwd_at, nc_suppressed, ob_vars>>

NcAllIdle == \A u \in Threads : nc_pc[u] = "idle"

\* send() under a host that runs one handler at a time
NcSendSerial(t, ev) ==
    /\ NcAllIdle
    /\ NcSend(t, ev)

NcBody(t) ==
    \/ NcSweep(t)
    \/ NcDelete(t)
    \/ NcLookup(t)
    \/ NcInsert(t)
    \/ \E r \in PostResults : NcPost(t, r)

\* ======================================================================
\*                              LLOneBotMsg
\* ======================================================================
Workers == 1..MaxThreads
Download == <<"Download">>
System == <<"System">>

ObConfigA == [enabled |-> TRUE, api_url |-> <<"u">>, token |-> <<"k">>,
              qq_user_id |-> <<"1", "2">>]
ObConfigB == [enabled |-> TRUE, api_url |-> <<"v", "/">>, token |-> <<"j">>,
              qq_user_id |-> <<"3">>, msgtypes |-> {Download}]
ObConfigs == {ObConfigA, ObConfigB}
\* disabled, or one of the three required values missing
ObPartialConfigs ==
    { [enabled |-> FALSE, api_url |-> <<"u">>, token |-> <<"k">>, qq_user_id |-> <<"1", "2">>],
      [enabled |-> TRUE, token |-> <<"k">>, qq_user_id |-> <<"1", "2">>],
      [enabled |-> TRUE, api_url |-> <<"u">>, token |-> <<>>, qq_user_id |-> <<"1", "2">>],
      [enabled |-> TRUE, api_url |-> <<"u">>, token |-> <<"k">>] }
\* a recipient that int() rejects
ObConfigC == [enabled |-> TRUE, api_url |-> <<"u">>, token |-> <<"k">>,
              qq_user_id |-> <<"x">>]

\* event.event_data
ObEvents ==
    { << >>,
      [title |-> <<>>, text |-> <<>>, type |-> Download],
      [title |-> <<"T">>, type |-> Download],
      [title |-> <<"T">>, type |-> System],
      [title |-> <<"T">>],
      [text |-> <<" ">>, type |-> Download] }

\* queue entries: a message dict with the history of its enqueueing, or the
\* None that stop_service puts
Sentinel == [none |-> TRUE, id |-> 0, data |-> << >>]
Item(id, data) == [none |-> FALSE, id |-> id, data |-> data]
NoRequest == [url |-> <<>>, auth |-> <<>>, user_id |-> 0, message |-> <<>>]
ObIdleFrame == [msg |-> Sentinel, wake |-> 0, request |-> NoRequest]

IsSpace(c) == c \in {" ", "\n", "\t"}

RECURSIVE LStrip(_)
LStrip(s) == IF s /= <<>> /\ IsSpace(Head(s)) THEN LStrip(Tail(s)) ELSE s

RECURSIVE RStripSpace(_)
RStripSpace(s) ==
    IF s /= <<>> /\ IsSpace(s[Len(s)]) THEN RStripSpace(SubSeq(s, 1, Len(s) - 1)) ELSE s

\* str.strip()
Strip(s) == RStripSpace(LStrip(s))

\* str.rstrip('/')
RECURSIVE RStripSlash(_)
RStripSlash(s) ==
    IF s /= <<>> /\ s[Len(s)] = "/" THEN RStripSlash(SubSeq(s, 1, Len(s) - 1)) ELSE s

Digits == <<"0", "1", "2", "3", "4", "5", "6", "7", "8", "9">>
DigitValue(c) == (CHOOSE i \in 1..10 : Digits[i] = c) - 1
IsDigit(c) == \E i \in 1..10 : Digits[i] = c

\* int(x) succeeds: x is a str of decimal digits, blanks around them allowed
ParsesAsInt(x) ==
    /\ x /= NoneVal
    /\ Strip(x) /= <<>>
    /\ \A i \in 1..Len(Strip(x)) : IsDigit(Strip(x)[i])

RECURSIVE DigitsToInt(_)
DigitsToInt(s) ==
    IF s = <<>> THEN 0 ELSE 10 * DigitsToInt(SubSeq(s, 1, Len(s) - 1)) + DigitValue(s[Len(s)])

\* int(x)
ToInt(x) == DigitsToInt(Strip(x))

\* str(x) of a str or None inside an f-string
Str(x) == IF x = NoneVal THEN <<"N", "o", "n", "e">> ELSE x

\* variant of line 74: the token left out
get_state_without_token == ob_enabled /\ Truthy(ob_api_url) /\ Truthy(ob_qq_user_id)

\* get_state(), line 74
get_state == ob_enabled /\ Truthy(ob_api_url) /\ Truthy(ob_token) /\ Truthy(ob_qq_user_id)

\* line 212
ObEmptyNotice(msg_body) == ~Truthy(Get(msg_body, "title")) /\ ~Truthy(Get(msg_body, "text"))

\* variant of line 241: without the leading "msg_type and"
ObFilteredStrict(msg_type, msgtypes) == msgtypes /= {} /\ msg_type \notin msgtypes

\* line 241: the category filter
ObFiltered(msg_type, msgtypes) == Truthy(msg_type) /\ msgtypes /= {} /\ msg_type \notin msgtypes

\* lines 248-251; the lenticular brackets U+3010 and U+3011 around the title are
\* written "[" and "]"
final_message(title, text) ==
    (IF Truthy(title) THEN <<"[">> \o title \o <<"]", "\n">> ELSE <<>>)
        \o (IF Truthy(text) THEN text ELSE <<>>)

\* line 253
ObBlank(message) == Strip(message) = <<>>

\* lines 259-269 raise: None has no rstrip, int() of None or of a non-number
ObEncodeFails == ob_api_url = NoneVal \/ ~ParsesAsInt(ob_qq_user_id)

\* lines 259-269
ObRequest(message) ==
    [url |-> RStripSlash(ob_api_url) \o <<"/", "send_private_msg">>,
     auth |-> <<"Bearer ">> \o Str(ob_token),
     user_id |-> ToInt(ob_qq_user_id),
     message |-> message]

\* variant of lines 230-233: the sleep left out
ObDelayNone(current_time, last) == 0

\* lines 230-233: the length of the throttling sleep
ObDelay(current_time, last) ==
    IF current_time - last < send_interval THEN send_interval - (current_time - last) ELSE 0

ObNoInit == [pc |-> "idle", config |-> NoConfig]

ObInit ==
    /\ ob_init = ObNoInit
    /\ ob_enabled = FALSE
    /\ ob_api_url = NoneVal
    /\ ob_token = NoneVal
    /\ ob_qq_user_id = NoneVal
    /\ ob_msgtypes = {}
    /\ event = FALSE
    /\ message_queue = <<>>
    /\ last_send_time = 0
    /\ processing_thread = 0
    /\ ob_pc = [w \in Workers |-> "unborn"]
    /\ ob_frame = [w \in Workers |-> ObIdleFrame]
    /\ ob_sends = 0
    /\ ob_stops = 0
    /\ ob_http_max = 0
    /\ ob_attempt_end = [w \in Workers |-> 0]
    /\ ob_took_none = [w \in Workers |-> FALSE]

\* lines 64-68: whether init_plugin starts a thread
ObStartsThread(config) ==
    /\ config.enabled
    /\ Truthy(Get(config, "api_url"))
    /\ Truthy(Get(config, "token"))
    /\ Truthy(Get(config, "qq_user_id"))

\* init_plugin(config), lines 52-68
ObInitPlugin(config) ==
    /\ plugin = "LLOneBotMsg"
    /\ event' = FALSE
    /\ IF DOMAIN config /= {}
          THEN /\ ob_enabled' = config.enabled
               /\ ob_api_url' = Get(config, "api_url")
               /\ ob_token' = Get(config, "token")
               /\ ob_qq_user_id' = Get(config, "qq_user_id")
               /\ ob_msgtypes' = GetOr(config, "msgtypes", {})
               /\ IF ObStartsThread(config)
                     THEN /\ processing_thread < MaxThreads
                          /\ processing_thread' = processing_thread + 1
                          /\ ob_pc' = [ob_pc EXCEPT ![processing_thread + 1] = "loop"]
                     ELSE UNCHANGED <<processing_thread, ob_pc>>
          ELSE UNCHANGED <<ob_config, processing_thread, ob_pc>>
    /\ UNCHANGED <<plugin, now, rejected_empty, nc_vars, ob_init, message_queue, last_send_time,
                   ob_frame, ob_hist>>

\* init_plugin(config) statement by statement, as another thread sees it.
\* lines 56-57: the flag is cleared and config tested
ObInitCall(config) ==
    /\ plugin = "LLOneBotMsg"
    /\ ob_init.pc = "idle"
    /\ event' = FALSE
    /\ ob_init' = IF DOMAIN config /= {} THEN [pc |-> "enabled", config |-> config]
                                        ELSE ObNoInit
    /\ UNCHANGED <<plugin, now, rejected_empty, nc_vars, ob_config, message_queue,
                   last_send_time, ob_threads, ob_hist>>

\* lines 58-68: the next statement of the call in progress
ObInitStep ==
    /\ plugin = "LLOneBotMsg"
    /\ ob_init.pc /= "idle"
    /\ LET config == ob_init.config
           at(pc) == ob_init.pc = pc
           goto(pc) == ob_init' = [ob_init EXCEPT !.pc = pc]
       IN \/ /\ at("enabled")
             /\ ob_enabled' = config.enabled
             /\ goto("api_url")
             /\ UNCHANGED <<ob_api_url, ob_token, ob_qq_user_id, ob_msgtypes,
                            processing_thread, ob_pc>>
          \/ /\ at("api_url")
             /\ ob_api_url' = Get(config, "api_url")
             /\ goto("token")
             /\ UNCHANGED <<ob_enabled, ob_token, ob_qq_user_id, ob_msgtypes,
                            processing_thread, ob_pc>>
          \/ /\ at("token")
             /\ ob_token' = Get(config, "token")
             /\ goto("qq_user_id")
             /\ UNCHANGED <<ob_enabled, ob_api_url, ob_qq_user_id, ob_msgtypes,
                            processing_thread, ob_pc>>
          \/ /\ at("qq_user_id")
             /\ ob_qq_user_id' = Get(config, "qq_user_id")
             /\ goto("msgtypes")
             /\ UNCHANGED <<ob_enabled, ob_api_url, ob_token, ob_msgtypes,
                            processing_thread, ob_pc>>
          \/ /\ at("msgtypes")
             /\ ob_msgtypes' = GetOr(config, "msgtypes", {})
             /\ goto("start")
             /\ UNCHANGED <<ob_enabled, ob_api_url, ob_token, ob_qq_user_id,
                            processing_thread, ob_pc>>
          \/ /\ at("start")
             /\ ob_init' = ObNoInit
             /\ IF get_state
                   THEN /\ processing_thread < MaxThreads
                        /\ processing_thread' = processing_thread + 1
                        /\ ob_pc' = [ob_pc EXCEPT ![processing_thread + 1] = "loop"]
                   ELSE UNCHANGED <<processing_thread, ob_pc>>
             /\ UNCHANGED ob_config
    /\ UNCHANGED <<plugin, now, rejected_empty, nc_vars, event, message_queue, last_send_time,
                   ob_frame, ob_hist>>

\* lines 207-214: send(event) passes the first gate and returns at the second
ObReturnsAtEmpty(event_data) ==
    /\ get_state
    /\ DOMAIN event_data /= {}
    /\ ObEmptyNotice(event_data)

\* send(event), lines 202-218
ObSendUpTo(limit, event_data) ==
    /\ plugin = "LLOneBotMsg"
    /\ ob_sends < limit
    /\ ob_sends' = ob_sends + 1
    /\ IF get_state /\ DOMAIN event_data /= {} /\ ~ObEmptyNotice(event_data)
          THEN message_queue' = Append(message_queue, Item(ob_sends + 1, event_data))
          ELSE UNCHANGED message_queue
    /\ rejected_empty' = (rejected_empty \/ ObReturnsAtEmpty(event_data))
    /\ UNCHANGED <<plugin, now, nc_vars, ob_init, ob_config, event, last_send_time, ob_threads,
                   ob_stops, ob_http_max, ob_attempt_end, ob_took_none>>

ObSend(event_data) == ObSendUpTo(MaxSends, event_data)

\* stop_service(), lines 289-296
ObStopService ==
    /\ plugin = "LLOneBotMsg"
    /\ ob_stops < MaxStops
    /\ ob_stops' = ob_stops + 1
    /\ event' = TRUE
    /\ message_queue' = Append(message_queue, Sentinel)
    /\ UNCHANGED <<plugin, now, rejected_empty, nc_vars, ob_init, ob_config, last_send_time, ob_threads,
                   ob_sends, ob_http_max, ob_attempt_end, ob_took_none>>

\* variant of line 224: while True
ObRunsAlways(flag) == TRUE

\* line 224: while not self.__event.is_set()
ObRuns(flag) == ~flag

\* process_queue, line 224: the loop test
ObLoop(w) ==
    /\ plugin = "LLOneBotMsg"
    /\ ob_pc[w] = "loop"
    /\ ob_pc' = [ob_pc EXCEPT ![w] = IF ObRuns(event) THEN "get" ELSE "exited"]
    /\ UNCHANGED <<plugin, now, rejected_empty, nc_vars, ob_init, ob_config, event, message_queue, last_send_time,
                   processing_thread, ob_frame, ob_hist>>

\* lines 227-232: the blocking get, then the time since the last send
ObDequeue(w) ==
    /\ plugin = "LLOneBotMsg"
    /\ ob_pc[w] = "get"
    /\ message_queue /= <<>>
    /\ message_queue' = Tail(message_queue)
    /\ ob_frame' = [ob_frame EXCEPT ![w] =
           [msg |-> Head(message_queue),
            wake |-> now + ObDelay(now, last_send_time),
            request |-> NoRequest]]
    /\ ob_pc' = [ob_pc EXCEPT ![w] = "sleep"]
    /\ ob_took_none' = [ob_took_none EXCEPT ![w] = @ \/ Head(message_queue).none]
    /\ UNCHANGED <<plugin, now, rejected_empty, nc_vars, ob_init, ob_config, event, last_send_time,
                   processing_thread, ob_sends, ob_stops, ob_http_max, ob_attempt_end>>

\* lines 233-269: the throttling sleep is over (not before wake); the item is
\* filtered, formatted and encoded, and the POST of line 273 starts
ObPrepare(w) ==
    /\ plugin = "LLOneBotMsg"
    /\ ob_pc[w] = "sleep"
    /\ now >= ob_frame[w].wake
    /\ LET msg_body == ob_frame[w].msg
           message == final_message(Get(msg_body.data, "title"), Get(msg_body.data, "text"))
       IN IF msg_body.none
             THEN \* line 236: None has no get; lines 284-287
                  /\ ob_pc' = [ob_pc EXCEPT ![w] = "except"]
                  /\ ob_frame' = [ob_frame EXCEPT ![w] =
                         [msg |-> Sentinel, wake |-> now + send_interval, request |-> NoRequest]]
                  /\ UNCHANGED ob_http_max
             ELSE IF ObFiltered(Get(msg_body.data, "type"), ob_msgtypes) \/ ObBlank(message)
             THEN \* lines 242-244, 254-256
                  /\ ob_pc' = [ob_pc EXCEPT ![w] = "loop"]
                  /\ ob_frame' = [ob_frame EXCEPT ![w] = ObIdleFrame]
                  /\ UNCHANGED ob_http_max
             ELSE IF ObEncodeFails
             THEN \* lines 284-287
                  /\ ob_pc' = [ob_pc EXCEPT ![w] = "except"]
                  /\ ob_frame' = [ob_frame EXCEPT ![w].wake = now + send_interval]
                  /\ UNCHANGED ob_http_max
             ELSE \* line 273
                  /\ ob_pc' = [ob_pc EXCEPT ![w] = "post"]
                  /\ ob_frame' = [ob_frame EXCEPT ![w].request = ObRequest(message)]
                  /\ ob_http_max' = IF msg_body.id > ob_http_max THEN msg_body.id ELSE ob_http_max
    /\ UNCHANGED <<plugin, now, rejected_empty, nc_vars, ob_init, ob_config, event, message_queue, last_send_time,
                   processing_thread, ob_sends, ob_stops, ob_attempt_end, ob_took_none>>

\* variant of line 281: inside the try, after raise_for_status
ObStampOn2xx(result, current_time, last) == IF result = "2xx" THEN current_time ELSE last

\* line 281, after the try/except of lines 272-278: whatever the POST's outcome
ObStamp(result, current_time, last) == current_time

\* lines 273-282: the POST returns or raises; last_send_time = time()
ObPostEnd(w, result) ==
    /\ plugin = "LLOneBotMsg"
    /\ ob_pc[w] = "post"
    /\ last_send_time' = ObStamp(result, now, last_send_time)
    /\ ob_attempt_end' = [ob_attempt_end EXCEPT ![w] = now]
    /\ ob_pc' = [ob_pc EXCEPT ![w] = "loop"]
    /\ ob_frame' = [ob_frame EXCEPT ![w] = ObIdleFrame]
    /\ UNCHANGED <<plugin, now, rejected_empty, nc_vars, ob_init, ob_config, event, message_queue,
                   processing_thread, ob_sends, ob_stops, ob_http_max, ob_took_none>>

\* variant of lines 284-287: the exception leaves the thread's function
ObExceptLeaves == "exited"

\* lines 284-287: the exception is caught inside the while loop
ObExceptResumes == "loop"

\* line 287: sleep(send_interval) of the except branch is over
ObExceptEnd(w) ==
    /\ plugin = "LLOneBotMsg"
    /\ ob_pc[w] = "except"
    /\ now >= ob_frame[w].wake
    /\ ob_pc' = [ob_pc EXCEPT ![w] = ObExceptResumes]
    /\ ob_frame' = [ob_frame EXCEPT ![w] = ObIdleFrame]
    /\ UNCHANGED <<plugin, now, rejected_empty, nc_vars, ob_init, ob_config, event, message_queue, last_send_time,
                   processing_thread, ob_hist>>

ObWorker(w) ==
    \/ ObLoop(w)
    \/ ObDequeue(w)
    \/ ObPrepare(w)
    \/ \E r \in {"2xx", "non2xx", "error"} : ObPostEnd(w, r)
    \/ ObExceptEnd(w)

\* ======================================================================
\*                            specifications
\* ======================================================================
\* last_send_time starts at 0 and time.time() far from it: the first item of a
\* gateway is never throttled
InitOf(class) ==
    /\ plugin = class
    /\ now = IF class = "LLOneBotMsg" THEN send_interval ELSE 0
    /\ rejected_empty = FALSE
    /\ NcInit
    /\ ObInit

Init == \E class \in {"NapCatQQMsg", "LLOneBotMsg"} : InitOf(class)

\* time passes: d seconds
Elapse(d) ==
    /\ now + d <= MaxTime
    /\ now' = now + d
    /\ UNCHANGED <<plugin, rejected_empty, nc_vars, ob_vars>>

Tick == Elapse(1)

\* enough time passes for every dedup entry to expire
TickWindow == Elapse(dedup_window_seconds + 1)

NextOneBot ==
    \/ Tick
    \/ \E c \in ObConfigs \cup {NoConfig} : ObInitPlugin(c)
    \/ \E e \in ObEvents : ObSend(e)
    \/ ObStopService
    \/ \E w \in Workers : ObWorker(w)

\* the host delivers one NoticeMessage event at a time
NextNapCat ==
    \/ Tick
    \/ \E c \in NcConfigs \cup {NoConfig} : NcInitPlugin(c)
    \/ \E e \in NcEvents : NcSendSerial(1, e)
    \/ NcBody(1)

Next == NextNapCat \/ NextOneBot

\* either plugin
Spec == Init /\ [][Next]_vars
\* NapCatQQMsg alone
SpecNapCat == InitOf("NapCatQQMsg") /\ [][NextNapCat]_vars
\* LLOneBotMsg alone
SpecOneBot == InitOf("LLOneBotMsg") /\ [][NextOneBot]_vars

\* LLOneBotMsg under one configuration and a burst of notifications that all
\* pass send()
ObBurstEvents == {e \in ObEvents : DOMAIN e /= {} /\ ~ObEmptyNotice(e)}

NextBurst ==
    \/ Tick
    \/ ObInitPlugin(ObConfigA)
    \/ \E e \in ObBurstEvents : ObSendUpTo(MaxBurst, e)
    \/ ObStopService
    \/ \E w \in Workers : ObWorker(w)

SpecBurst == InitOf("LLOneBotMsg") /\ [][NextBurst]_vars

\* d seconds pass with no bound on the run's length: at the clock's last value
\* the timestamps of LLOneBotMsg move back instead of the clock moving on
Back(x, d) == IF x > d THEN x - d ELSE 0

Pass(d) ==
    IF now + d <= MaxTime
       THEN Elapse(d)
       ELSE /\ plugin = "LLOneBotMsg"
            /\ last_send_time' = Back(last_send_time, d)
            /\ ob_frame' = [w \in Workers |-> [ob_frame[w] EXCEPT !.wake = Back(@, d)]]
            /\ ob_attempt_end' = [w \in Workers |-> Back(ob_attempt_end[w], d)]
            /\ UNCHANGED <<plugin, now, rejected_empty, nc_vars, ob_init, ob_config, event, message_queue,
                           processing_thread, ob_pc, ob_sends, ob_stops, ob_http_max,
                           ob_took_none>>

\* LLOneBotMsg for as long as the host runs: time always passes, every started
\* thread is scheduled again and again, and requests.post returns (timeout=10)
NextLive ==
    \/ Pass(send_interval)
    \/ \E c \in {ObConfigB, ObConfigC} : ObInitPlugin(c)
    \/ \E e \in ObBurstEvents : ObSend(e)
    \/ ObStopService
    \/ \E w \in Workers : ObWorker(w)

SpecLive ==
    /\ InitOf("LLOneBotMsg")
    /\ [][NextLive]_vars
    /\ WF_vars(Pass(send_interval))
    /\ \A w \in Workers : WF_vars(ObWorker(w))

\* either plugin, LLOneBotMsg under complete and incomplete configurations
NextSetup ==
    \/ NextNapCat
    \/ Tick
    \/ \E c \in {ObConfigA, NoConfig} \cup ObPartialConfigs : ObInitPlugin(c)
    \/ ObSend([title |-> <<"T">>])
    \/ \E w \in Workers : ObWorker(w)

SpecSetup == Init /\ [][NextSetup]_vars

\* LLOneBotMsg reconfigured while its threads run: init_plugin as the
\* statements it is
NextReconfig ==
    \/ Elapse(send_interval)
    \/ \E c \in ObConfigs : ObInitCall(c)
    \/ ObInitStep
    \/ ObSend([title |-> <<"T">>])
    \/ ObStopService
    \/ \E w \in Workers : ObWorker(w)

SpecReconfig == InitOf("LLOneBotMsg") /\ [][NextReconfig]_vars

\* NapCatQQMsg behind an endpoint that never answers 200
NextPostFails ==
    \/ Tick
    \/ NcInitPlugin(NcFull)
    \/ \E e \in NcEvents : NcSendSerial(1, e)
    \/ NcSweep(1)
    \/ NcDelete(1)
    \/ NcLookup(1)
    \/ NcInsert(1)
    \/ \E r \in PostResults \ {"200"} : NcPost(1, r)

SpecPostFails == InitOf("NapCatQQMsg") /\ [][NextPostFails]_vars

\* the host delivers NoticeMessage events on several threads at once
NextConcurrent ==
    \/ TickWindow
    \/ NcInitPlugin(NcFull)
    \/ \E t \in Threads, e \in NcEvents : NcSend(t, e)
    \/ \E t \in Threads : NcBody(t)

SpecConcurrent == InitOf("NapCatQQMsg") /\ [][NextConcurrent]_vars

\* ======================================================================
\*                              properties
\* ======================================================================
NcEventEmpty(ev) ==
    /\ ev.is_dict
    /\ GetOr(ev.data, "title", <<>>) = <<>>
    /\ GetOr(ev.data, "text", <<>>) = <<>>
ObEventEmpty(event_data) ==
    /\ Get(event_data, "title") \in {NoneVal, <<>>}
    /\ Get(event_data, "text") \in {NoneVal, <<>>}
ObTitleText(item) == <<Get(item.data, "title"), Get(item.data, "text")>>
ObAlive == {w \in Workers : ob_pc[w] \notin {"unborn", "exited"}}
ObStartsAttempt(w) == ob_pc[w] = "sleep" /\ ob_pc'[w] = "post"
ObTakesItem(w) == ob_pc[w] = "get" /\ ob_pc'[w] = "sleep" /\ ~Head(message_queue).none

ObQueued(i) == \E k \in 1..Len(message_queue) : message_queue[k].id = i
ObHeld(i) == \E w \in Workers : ob_pc[w] \in {"sleep", "post"} /\ ob_frame[w].msg.id = i

Missing(x) == x = NoneVal \/ x = <<>>
NcIncomplete == ~nc_enabled \/ Missing(nc_forward_url) \/ Missing(nc_user_id)
ObIncomplete ==
    ~ob_enabled \/ Missing(ob_api_url) \/ Missing(ob_token) \/ Missing(ob_qq_user_id)

\* thread w is about to take, or has taken, the None of stop_service, or is in
\* the except branch
ObUnblocked(w) ==
    \/ ob_pc[w] = "get" /\ message_queue /= <<>> /\ Head(message_queue).none
    \/ ob_pc[w] = "sleep" /\ ob_frame[w].msg.none
    \/ ob_pc[w] = "except"

\* thread w has a message whose handling has failed: its POST is under way (and
\* may fail), or int() has rejected the recipient
ObFailing(w) ==
    \/ ob_pc[w] = "post"
    \/ ob_pc[w] = "except" /\ ~ob_frame[w].msg.none
\* the message thread w holds gets past the category filter and the blank test
ObSendable(w) ==
    LET data == ob_frame[w].msg.data
        type == Get(data, "type")
    IN /\ ~ob_frame[w].msg.none
       /\ (type = NoneVal \/ ob_msgtypes = {} \/ type \in ob_msgtypes)
       /\ Strip(final_message(Get(data, "title"), Get(data, "text"))) /= <<>>

\* the message thread w holds is skipped: its category is filtered out or its
\* formatted message is blank
ObSkipped(w) ==
    LET data == ob_frame[w].msg.data
        type == Get(data, "type")
    IN /\ ~ob_frame[w].msg.none
       /\ \/ type /= NoneVal /\ ob_msgtypes /= {} /\ type \notin ob_msgtypes
          \/ Strip(final_message(Get(data, "title"), Get(data, "text"))) = <<>>

\* the request's endpoint, token and recipient are those of configuration c
ObRequestOf(request, c) ==
    /\ request.url = RStripSlash(c.api_url) \o <<"/", "send_private_msg">>
    /\ request.auth = <<"Bearer ">> \o c.token
    /\ request.user_id = ToInt(c.qq_user_id)

\* C1: NapCatQQMsg.send, enabled and configured, calls one after the other. A call
\* whose fingerprint was last accepted for forwarding no more than
\* dedup_window_seconds before the call's current_time returns as a duplicate: no
\* POST, the cache as it was. A call whose fingerprint was never accepted, or last
\* accepted more than the window before, is forwarded, and a forwarded call issues
\* exactly one POST.
C1_DedupWindow ==
    [][/\ nc_pc' = nc_pc => nc_posts' = nc_posts
       /\ \A t \in Threads :
        /\ (nc_pc[t] = "lookup" /\ nc_pc'[t] /= "lookup") =>
              LET fp == NcFingerprintOf(t)
                  ct == nc_frame[t].current_time
              IN IF fp \in DOMAIN nc_fwd_at /\ ct - nc_fwd_at[fp] <= dedup_window_seconds
                    THEN /\ nc_pc'[t] = "idle"
                         /\ nc_posts' = nc_posts
                         /\ last_forwarded_messages' = last_forwarded_messages
                    ELSE nc_pc'[t] = "insert"
        /\ (nc_pc[t] = "insert" /\ nc_pc'[t] /= "insert") => nc_pc'[t] = "post"
        /\ (nc_pc[t] = "post" /\ nc_pc'[t] /= "post") =>
              nc_posts' = Bump(nc_posts, NcFingerprintOf(t))
      ]_vars

\* C1 witness: a fingerprint was forwarded once, a repeat of it was suppressed, and
\* a call arriving more than the window after the forwarded one is now being POSTed
C1_Witness ==
    \E t \in Threads :
        /\ nc_pc[t] = "post"
        /\ Count(nc_posts, NcFingerprintOf(t)) = 1
        /\ Count(nc_suppressed, NcFingerprintOf(t)) >= 1
        /\ nc_frame[t].current_time > dedup_window_seconds

\* C2: a send() of a notification whose title and text are both empty changes
\* nothing in either gateway: no dedup entry, no call in progress, no POST, nothing
\* enqueued; and no call in progress and no queued item ever carries such a
\* notification.
C2_EmptyNoticeDropped ==
    /\ [][(\E e \in NcEvents : NcEventEmpty(e) /\ NcSendSerial(1, e)) =>
             UNCHANGED <<last_forwarded_messages, nc_pc, nc_frame, nc_fwd_at, nc_posts,
                         nc_suppressed>>]_vars
    /\ [][(\E e \in ObEvents : ObEventEmpty(e) /\ ObSend(e)) =>
             UNCHANGED <<message_queue, last_send_time, ob_threads, ob_http_max>>]_vars
    /\ [](\A t \in Threads :
             nc_pc[t] /= "idle" => (nc_frame[t].title /= <<>> \/ nc_frame[t].text /= <<>>))
    /\ [](\A i \in 1..Len(message_queue) :
             message_queue[i].none \/ ~ObEventEmpty(message_queue[i].data))
    /\ [](\A k \in DOMAIN last_forwarded_messages : k /= <<"|">>)

\* C2 witness: a configured NapCatQQMsg has returned from a send() of an empty
\* notification, with no dedup entry and no POST
C2_Witness ==
    /\ plugin = "NapCatQQMsg"
    /\ rejected_empty
    /\ nc_calls = 1
    /\ last_forwarded_messages = << >>
    /\ nc_posts = << >>

\* C3: each HTTP attempt of a thread running process_queue starts at least
\* send_interval after the end of that thread's attempt before, whatever send(),
\* init_plugin() and stop_service() do in between; and while only one thread has
\* been started, each attempt starts at least send_interval after last_send_time
\* was written.
C3_Throttle ==
    [][\A w \in Workers :
        ObStartsAttempt(w) =>
            /\ now - ob_attempt_end[w] >= send_interval
            /\ processing_thread = 1 => now - last_send_time >= send_interval]_vars

\* C3 witness: a thread that has ended one HTTP attempt is in its next one, started
\* exactly send_interval later, with a third item of the burst still queued
C3_Witness ==
    \E w \in Workers :
        /\ ob_pc[w] = "post"
        /\ ob_attempt_end[w] >= send_interval
        /\ now = ob_attempt_end[w] + send_interval
        /\ message_queue /= <<>>

\* C4: HTTP attempts start in the order of enqueueing: an attempt never starts for
\* an item enqueued before one whose attempt has already started.
C4_FifoOrder ==
    [][\A w \in Workers : ObStartsAttempt(w) => ob_frame[w].msg.id > ob_http_max]_vars

\* C5: at most one thread is in the process_queue loop.
C5_SingleWorker == Cardinality(ObAlive) <= 1

\* C6: once stop_service has set the exit flag (and no init_plugin has cleared it),
\* the one thread running process_queue takes no message off the queue.
C6_NoDequeueAfterStop ==
    [][(event /\ processing_thread = 1) => \A w \in Workers : ~ObTakesItem(w)]_vars

\* C7: once stop_service has set the exit flag (and no init_plugin has cleared it),
\* send() leaves the queue as it is.
C7_SendAfterStopNoOp ==
    [][(event /\ \E e \in ObEvents : ObSend(e)) => message_queue' = message_queue]_vars

\* C8 as stated: with _msgtypes non-empty an HTTP attempt starts only for an item
\* whose category is a member.
C8_OnlyMembersSent ==
    [][\A w \in Workers :
        (ob_msgtypes /= {} /\ ObStartsAttempt(w)) =>
            Get(ob_frame[w].msg.data, "type") \in ob_msgtypes]_vars

\* C8 amended: with _msgtypes non-empty, an HTTP attempt starts only for an item
\* that carries no category or whose category is a member; an item carrying a
\* category that is not a member is skipped with no HTTP call; an item with no
\* category or a member category whose message is not blank is sent, the endpoint
\* being set and the recipient id an integer.
C8_CategoryFilter ==
    [][\A w \in Workers :
        (ob_msgtypes /= {} /\ ob_pc[w] = "sleep" /\ ob_pc'[w] /= "sleep"
            /\ ~ob_frame[w].msg.none) =>
            LET data == ob_frame[w].msg.data
                type == Get(data, "type")
                passes == type = NoneVal \/ type \in ob_msgtypes
            IN /\ ob_pc'[w] = "post" => passes
               /\ ~passes => /\ ob_pc'[w] = "loop"
                             /\ UNCHANGED <<ob_http_max, last_send_time, message_queue>>
               /\ ( /\ passes
                    /\ Strip(final_message(Get(data, "title"), Get(data, "text"))) /= <<>>
                    /\ ob_api_url /= NoneVal
                    /\ ParsesAsInt(ob_qq_user_id) ) => ob_pc'[w] = "post"]_vars

\* C8 witness: with _msgtypes = {Download} an item without a category is in its POST
C8_Witness ==
    \E w \in Workers :
        /\ ob_pc[w] = "post"
        /\ ob_msgtypes = {Download}
        /\ Get(ob_frame[w].msg.data, "type") = NoneVal
        /\ ob_frame[w].request.user_id = 3

\* C9: of two notifications with the same title and text accepted by LLOneBotMsg
\* within the dedup window (here: the whole run is shorter than the window), only
\* one is on the queue.
C9_QueuedDedup ==
    (now - send_interval <= dedup_window_seconds) =>
        \A i, j \in 1..Len(message_queue) :
            (i < j /\ ~message_queue[i].none /\ ~message_queue[j].none) =>
                ObTitleText(message_queue[i]) /= ObTitleText(message_queue[j])

\* C10: two concurrent calls of NapCatQQMsg.send with the same title and text,
\* arriving within the dedup window of each other, are never both in the POST.
C10_AtMostOnePost ==
    \A t, u \in Threads :
        (t /= u /\ nc_pc[t] = "post" /\ nc_pc[u] = "post"
            /\ nc_frame[t].title = nc_frame[u].title /\ nc_frame[t].text = nc_frame[u].text)
        => nc_frame[t].current_time - nc_frame[u].current_time > dedup_window_seconds
           \/ nc_frame[u].current_time - nc_frame[t].current_time > dedup_window_seconds

\* C11: with time passing, threads scheduled fairly and every POST returning, a
\* message that send() has put on the queue is, unless stop_service() is called,
\* eventually taken off the queue and through with: sent, failed, skipped or
\* dropped by the except branch.
C11_EveryItemProcessed ==
    \A i \in 1..MaxSends :
        (ObQueued(i) /\ ob_stops = 0) ~> ((~ObQueued(i) /\ ~ObHeld(i)) \/ ob_stops > 0)

\* C11 witness: with no stop_service() every send() enqueued a message, the queue
\* is empty again, no thread holds a message, and the last one was POSTed
C11_Witness ==
    /\ ob_stops = 0
    /\ ob_sends = MaxSends
    /\ ob_http_max = MaxSends
    /\ message_queue = <<>>
    /\ \A i \in 1..MaxSends : ~ObHeld(i)

\* C12: while a gateway is disabled or lacks a required value (endpoint or
\* recipient; for LLOneBotMsg also the token), send() changes nothing: no call in
\* progress and no POST, the dedup cache as it was, nothing enqueued; and an
\* init_plugin that leaves LLOneBotMsg in such a configuration starts no thread.
C12_NotReadyNoOp ==
    /\ [][(NcIncomplete /\ \E e \in NcEvents : NcSendSerial(1, e)) =>
             UNCHANGED <<last_forwarded_messages, nc_pc, nc_frame, nc_fwd_at, nc_posts,
                         nc_suppressed>>]_vars
    /\ [][(ObIncomplete /\ \E e \in ObEvents : ObSend(e)) =>
             UNCHANGED <<message_queue, last_send_time, ob_threads, ob_http_max>>]_vars
    /\ [][(ObIncomplete' /\ \E c \in ObPartialConfigs \cup ObConfigs \cup {NoConfig} :
                              ObInitPlugin(c)) =>
             UNCHANGED <<processing_thread, ob_pc>>]_vars

\* C12 witness: LLOneBotMsg enabled with endpoint and recipient but no token has
\* returned from every send() with nothing enqueued and no thread started
C12_Witness ==
    /\ plugin = "LLOneBotMsg"
    /\ ob_enabled /\ ~Missing(ob_api_url) /\ ~Missing(ob_qq_user_id) /\ Missing(ob_token)
    /\ ob_sends = MaxSends
    /\ message_queue = <<>>
    /\ processing_thread = 0

\* C13: the only thread ever started is blocked in get() on an empty queue when
\* stop_service() is called. Unless an init_plugin clears the exit flag, the thread
\* eventually leaves process_queue, and on its way (the None dequeued, the
\* AttributeError caught, the sleep, the loop test) it starts no POST.
C13_StopUnblocks ==
    /\ (processing_thread = 1 /\ event /\ ob_pc[1] = "get" /\ message_queue = <<Sentinel>>)
           ~> (ob_pc[1] = "exited" \/ ~event)
    /\ [][(processing_thread = 1 /\ event /\ event' /\ ObUnblocked(1)) =>
             (ObUnblocked(1)' \/ ob_pc'[1] \in {"loop", "exited"})]_vars
    /\ [][(event /\ event' /\ ob_pc[1] = "loop") => ob_pc'[1] \in {"loop", "exited"}]_vars

\* C13 witness: no message was ever sent; the one thread has taken the None off
\* the queue and has left process_queue with the exit flag still set
C13_Witness ==
    /\ processing_thread = 1
    /\ ob_pc[1] = "exited"
    /\ event
    /\ ob_sends = 0
    /\ ob_http_max = 0
    /\ message_queue = <<>>

\* C14: a thread to which get() has returned the None of stop_service starts no
\* POST for it and takes nothing more off the queue.
C14_SentinelExits ==
    /\ [][\A w \in Workers :
            (ob_pc[w] = "sleep" /\ ob_frame[w].msg.none) => ob_pc'[w] /= "post"]_vars
    /\ [][\A w \in Workers :
            ob_took_none[w] => ~(ob_pc[w] = "get" /\ ob_pc'[w] = "sleep")]_vars

\* C15: a POST that ends in any way (2xx, non-2xx, exception) leaves its thread at
\* the loop test; a recipient id that int() rejects sends the thread through the
\* except branch with no POST and back to the loop test; a thread leaves the loop
\* only at the loop test with the exit flag set; nothing is ever put back on the
\* queue; and, with no stop_service(), the messages still queued while a thread is
\* in a failing POST or in the except branch are eventually dequeued.
C15_FailureContinues ==
    /\ [][\A w \in Workers :
            (ob_pc[w] = "post" /\ ob_pc'[w] /= "post") =>
                (ob_pc'[w] = "loop" /\ message_queue' = message_queue)]_vars
    /\ [][\A w \in Workers :
            (ob_pc[w] = "sleep" /\ ob_pc'[w] /= "sleep" /\ ObSendable(w)
                /\ ob_api_url /= NoneVal /\ ~ParsesAsInt(ob_qq_user_id)) =>
                (ob_pc'[w] = "except"
                    /\ UNCHANGED <<ob_http_max, last_send_time, message_queue>>)]_vars
    /\ [][\A w \in Workers :
            (ob_pc[w] = "except" /\ ob_pc'[w] /= "except") =>
                (ob_pc'[w] = "loop" /\ message_queue' = message_queue)]_vars
    /\ [][\A w \in Workers :
            (ob_pc[w] /= "exited" /\ ob_pc'[w] = "exited") => (event /\ ob_pc[w] = "loop")]_vars
    /\ [][message_queue' /= message_queue =>
            \/ message_queue /= <<>> /\ message_queue' = Tail(message_queue)
            \/ /\ Len(message_queue') = Len(message_queue) + 1
               /\ SubSeq(message_queue', 1, Len(message_queue)) = message_queue
               /\ LET last == message_queue'[Len(message_queue')]
                  IN last.none \/ last.id = ob_sends + 1]_vars
    /\ \A w \in Workers, i \in 1..MaxSends :
            (ObFailing(w) /\ ObQueued(i) /\ ob_stops = 0) ~> (~ObQueued(i) \/ ob_stops > 0)

\* C15 witness: the POST of the first message has ended, in whichever way, and
\* the same thread, the only one, is in the POST of the second message
C15_Witness ==
    /\ processing_thread = 1
    /\ ob_stops = 0
    /\ ob_attempt_end[1] > 0
    /\ ob_pc[1] = "post"
    /\ ob_frame[1].msg.id = 2

\* C16: last_send_time changes only at the end of an HTTP attempt; the end of
\* every attempt sets it to the current time; and a message skipped because its
\* category is filtered out or its formatted message is blank leaves it as it was.
C16_LastSendTime ==
    /\ [][last_send_time' /= last_send_time =>
            \E w \in Workers : ob_pc[w] = "post" /\ ob_pc'[w] = "loop"]_vars
    /\ [][\A w \in Workers :
            (ob_pc[w] = "post" /\ ob_pc'[w] /= "post") => last_send_time' = now]_vars
    /\ [][\A w \in Workers :
            (ob_pc[w] = "sleep" /\ ob_pc'[w] /= "sleep" /\ ObSkipped(w)) =>
                (ob_pc'[w] = "loop" /\ last_send_time' = last_send_time)]_vars

\* C16 witness: an attempt made after the first one has just ended and
\* last_send_time is the current time
C16_Witness ==
    \E w \in Workers :
        /\ ob_pc[w] = "loop"
        /\ ob_http_max = MaxSends
        /\ ob_attempt_end[w] = now
        /\ last_send_time = now
        /\ now >= 2 * send_interval

\* C17: a call returned as a duplicate leaves the dedup cache as it was, so every
\* entry's timestamp is the time of the last call of its fingerprint that was
\* forwarded; and a call is forwarded exactly when its fingerprint was never
\* forwarded or was last forwarded more than dedup_window_seconds before it,
\* however many duplicates were suppressed in between.
C17_NoRefresh ==
    /\ [](\A fp \in DOMAIN last_forwarded_messages :
             fp \in DOMAIN nc_fwd_at /\ last_forwarded_messages[fp] = nc_fwd_at[fp])
    /\ [][nc_suppressed' /= nc_suppressed =>
             last_forwarded_messages' = last_forwarded_messages]_vars
    /\ [][(nc_pc[1] = "lookup" /\ nc_pc'[1] /= "lookup") =>
             LET fp == NcFingerprintOf(1)
                 t0 == nc_fwd_at[fp]
             IN (nc_pc'[1] = "insert") <=>
                    (fp \notin DOMAIN nc_fwd_at
                        \/ nc_frame[1].current_time > t0 + dedup_window_seconds)]_vars

\* C17 witness: a fingerprint forwarded at t0 had a duplicate suppressed, its
\* entry was swept with the timestamp t0, and a call later than t0 + window is
\* about to record it again
C17_Witness ==
    /\ nc_pc[1] = "insert"
    /\ NcFingerprintOf(1) \in DOMAIN nc_fwd_at
    /\ NcFingerprintOf(1) \notin DOMAIN last_forwarded_messages
    /\ Count(nc_suppressed, NcFingerprintOf(1)) >= 1
    /\ nc_frame[1].current_time = nc_fwd_at[NcFingerprintOf(1)] + dedup_window_seconds + 1

\* C18: the endpoint, the token and the recipient of every request a thread has
\* built are those of one and the same init_plugin configuration.
C18_OneConfiguration ==
    \A w \in Workers :
        ob_pc[w] = "post" => \E c \in ObConfigs : ObRequestOf(ob_frame[w].request, c)

C20_RecordedBeforePost ==
    /\ [](nc_pc[1] = "post" =>
            /\ NcFingerprintOf(1) \in DOMAIN last_forwarded_messages
            /\ last_forwarded_messages[NcFingerprintOf(1)] = nc_frame[1].current_time)
    /\ [][(nc_pc[1] = "post" /\ nc_pc'[1] /= "post") =>
            last_forwarded_messages' = last_forwarded_messages]_vars
    /\ [][(nc_pc[1] = "lookup" /\ nc_pc'[1] /= "lookup"
                /\ Count(nc_posts, NcFingerprintOf(1)) >= 1
                /\ nc_frame[1].current_time - nc_fwd_at[NcFingerprintOf(1)]
                       <= dedup_window_seconds) =>
            (nc_pc'[1] = "idle" /\ nc_suppressed' /= nc_suppressed)]_vars

\* C20 witness: the one POST made for a fingerprint has failed, and a later call
\* with that fingerprint, still within the window, was returned as a duplicate
C20_Witness ==
    \E fp \in DOMAIN last_forwarded_messages :
        /\ nc_pc[1] = "idle"
        /\ Count(nc_posts, fp) = 1
        /\ Count(nc_suppressed, fp) = 1
        /\ now > last_forwarded_messages[fp]

=============================================================================
